---- MODULE Spec2Model ----
(***************************************************************************)
(* Paper-Verify: the result matcher (matcher.py), the validator            *)
(* (validator.py), the exit code of the check command (cli.py), the       *)
(* file loop of load_directory (matcher.py) and the LaTeX parser           *)
(* (parser.py).                                                            *)
(*                                                                         *)
(* Numbers.  A float value is an integer count of 1e-7 units, one digit    *)
(* more than round(x, 6) keeps, so 2.10 is 21000000 and 2.1000004 is       *)
(* 21000004.  A percentage (tolerance_pct, difference_pct) is an exact     *)
(* rational: a tolerance is a whole number of percent, a difference is a   *)
(* pair <<numerator, denominator>> in lowest terms.  The rounding error of  *)
(* the float operations is not modelled; the values of the model are       *)
(* chosen so that no comparison lies within that error.                    *)
(*                                                                         *)
(* Strings.  A str is a sequence of one-character strings, so that         *)
(* lower() and the substring test `in` are computed.  None and "" are both *)
(* falsy and the code only tests truthiness of the optional fields, so     *)
(* both are the empty sequence.  An Optional[...] result field is a        *)
(* sequence of length 0 (None) or 1.                                       *)
(***************************************************************************)
EXTENDS Integers, Sequences, FiniteSets, TLC

VARIABLES
    values,         \* ResultMatcher.values
    index,          \* ResultMatcher.index
    tolerance_pct,  \* Validator.tolerance_pct
    claim,          \* the argument of the latest verify_claim call, if any
    result,         \* what that call returned, if it returned
    exception,      \* what that call raised, if it raised
    queries,        \* the tiers that call queried, in order
    candidates,     \* the matches that call handed to _select_best_match
    pc,             \* the position of the check command
    claims,         \* check: what parse_latex returned
    results,        \* check: what verify_paper returned
    exit_code,      \* check: the exit code of the process
    directory,      \* the files the latest load_directory call found
    count,          \* what that call returned
    warnings,       \* the files that call printed a warning for, in order
    load_exception, \* what that call raised, if it raised
    content,        \* the argument of parse_content
    line_num,       \* parse_content: the lines handled so far
    parsed          \* parse_content: the list `claims`

\* the variables of load_directory's file loop and of the parser
ioVars == <<directory, count, warnings, load_exception, content, line_num, parsed>>

vars == <<values, index, tolerance_pct, claim, result, exception, queries,
          candidates, pc, claims, results, exit_code, ioVars>>

(* ---------------------------------------------------------------- bounds *)
MaxObs == 3
MaxCheckObs == 1
MaxClaims == 2
MaxFiles == 2
MaxLines == 2

(* --------------------------------------------------------------- strings *)
None == << >>

S_mae == <<"m", "a", "e">>
S_MAE == <<"M", "A", "E">>
S_rmse == <<"r", "m", "s", "e">>
S_rmse_mae == <<"r", "m", "s", "e", "_", "m", "a", "e">>
S_x == <<"x">>
S_chronos == <<"c", "h", "r", "o", "n", "o", "s">>
S_chronos_tiny == <<"c", "h", "r", "o", "n", "o", "s", "-", "t", "i", "n", "y">>
S_arima == <<"a", "r", "i", "m", "a">>

LowerChar(c) ==
    CASE c = "A" -> "a"
      [] c = "E" -> "e"
      [] c = "M" -> "m"
      [] c = "R" -> "r"
      [] c = "S" -> "s"
      [] OTHER -> c

Lower(s) == [i \in 1..Len(s) |-> LowerChar(s[i])]

\* needle in hay
Contains(hay, needle) ==
    \E i \in 0..(Len(hay) - Len(needle)) :
        SubSeq(hay, i + 1, i + Len(needle)) = needle

Truthy(s) == s /= None

(* --------------------------------------------------------------- numbers *)
Abs(x) == IF x < 0 THEN -x ELSE x

RECURSIVE GCD(_, _)
GCD(a, b) == IF b = 0 THEN a ELSE GCD(b, a % b)

\* the rational n/d (d > 0) in lowest terms
Ratio(n, d) == LET g == GCD(n, d) IN <<n \div g, d \div g>>

Zero == Ratio(0, 1)

\* round(x, 6): to the nearest multiple of 10 units, a tie going to the even
\* sixth digit
Round6(v) ==
    LET q == v \div 10
        r == v % 10
    IN  IF r < 5 THEN q * 10
        ELSE IF r > 5 THEN (q + 1) * 10
        ELSE IF q % 2 = 0 THEN q * 10 ELSE (q + 1) * 10

\* the difference taken relative to the claim instead of the matched value
DiffPct_ClaimDenominator(a, b) == Ratio(Abs(a - b) * 100, Abs(b))

\* abs(a - b) / abs(a) * 100, for a /= 0
DiffPct(a, b) == Ratio(Abs(a - b) * 100, Abs(a))

\* the fraction, not the percentage, compared with the tolerance
DiffWithin_Fraction(a, b, tol) == Abs(a - b) <= tol * Abs(a)

\* the comparison turned round
DiffWithin_Inverted(a, b, tol) == Abs(a - b) >= (tol * Abs(a)) \div 100

\* abs(a - b) / abs(a) * 100 <= tol, for a /= 0; written with the floor
\* division n * 100 <= m  <=>  n <= m \div 100 to stay within 32 bits
DiffWithin(a, b, tol) == Abs(a - b) <= (tol * Abs(a)) \div 100

(* ------------------------------------------------------------ ResultValue *)
ResultValue(v, f, p, mo, me) ==
    [value |-> v, source_file |-> f, path |-> p, model |-> mo, metric |-> me]

\* the ResultValue objects of the model; values and index hold references to
\* them, as the Python lists do
ObsTable ==
    << ResultValue(21000000, "chronos_etth1.json", S_mae, S_chronos, S_mae),
       ResultValue(21000004, "results.json", S_rmse, None, S_rmse),
       ResultValue(21000000, "chronos-tiny_etth1.json", S_rmse_mae, S_chronos_tiny, S_mae),
       ResultValue(21000000, "test.json", S_x, None, S_rmse),
       ResultValue(21200000, "results.xlsx", S_MAE, None, None),
       ResultValue(25000000, "arima_etth1.json", S_mae, S_arima, S_MAE),
       ResultValue(0, "results.csv", S_x, None, None) >>

ObsSet == DOMAIN ObsTable

(* ------------------------------------------------------------------ Claim *)
Claim(v, me, mo) == [value |-> v, metric_hint |-> me, model_hint |-> mo]

\* the Claim objects of the model
ClaimTable ==
    << Claim(21000000, S_mae, None),
       Claim(21000000, S_rmse, S_chronos),
       Claim(21000001, S_rmse, None),
       Claim(21400000, None, S_chronos_tiny),
       Claim(23000000, S_mae, S_arima),
       Claim(0, None, None) >>

ClaimSet == DOMAIN ClaimTable

Tolerances == {1, 5, 12}

\* the width the comment above the wide tier speaks of
WIDE_TOLERANCE_5 == 5

\* the width the wide tier queries
WIDE_TOLERANCE == 10

(* ---------------------------------------------------------- ResultMatcher *)
\* _build_index that assigns a new bucket [rv] on every insertion
RECURSIVE BuildIndexFrom_Overwrite(_, _, _)
BuildIndexFrom_Overwrite(idx, vals, i) ==
    IF i > Len(vals) THEN idx
    ELSE LET rv == vals[i]
             key == Round6(ObsTable[rv].value)
         IN  BuildIndexFrom_Overwrite(
                 [k \in (DOMAIN idx) \cup {key} |->
                     IF k = key THEN <<rv>> ELSE idx[k]],
                 vals, i + 1)

RECURSIVE BuildIndexFrom(_, _, _)
BuildIndexFrom(idx, vals, i) ==
    IF i > Len(vals) THEN idx
    ELSE LET rv == vals[i]
             key == Round6(ObsTable[rv].value)
             bucket == IF key \in DOMAIN idx THEN idx[key] ELSE << >>
         IN  BuildIndexFrom(
                 [k \in (DOMAIN idx) \cup {key} |->
                     IF k = key THEN Append(bucket, rv) ELSE idx[k]],
                 vals, i + 1)

\* _build_index: clear, then insert every value under its rounded key
BuildIndex(vals) == BuildIndexFrom([k \in {} |-> << >>], vals, 1)

\* find_matches without the guard against a zero value
Skipped_Never(rv) == FALSE

\* find_matches: `if rv.value == 0: continue`
Skipped(rv) == ObsTable[rv].value = 0

\* x / abs(a) raises ZeroDivisionError
DivRaises(a) == Abs(a) = 0

\* find_matches raises when it divides by a zero value
FindMatchesRaises(vals) ==
    \E i \in DOMAIN vals : ~Skipped(vals[i]) /\ DivRaises(ObsTable[vals[i]].value)

FindMatches(vals, target, tol) ==
    LET Keep(rv) == ~Skipped(rv) /\ DiffWithin(ObsTable[rv].value, target, tol)
    IN  SelectSeq(vals, Keep)

FindExact(idx, target) ==
    LET key == Round6(target)
    IN  IF key \in DOMAIN idx THEN idx[key] ELSE << >>

(* ---------------------------------------------------------------- Validator *)
EXACT_MATCH == "exact"
CLOSE_MATCH == "close"
MISMATCH == "mismatch"
UNVERIFIED == "unverified"

VerificationResult(c, st, mv, dp) ==
    [claim |-> c, status |-> st, matched_value |-> mv, difference_pct |-> dp]

\* the score with the two model tests as independent ifs: a model equal to
\* the hint scores twice
Score_ModelTwice(claim_, match_) ==
    LET c == ClaimTable[claim_]
        match == ObsTable[match_]
    IN
    (IF Truthy(c.metric_hint) /\ Truthy(match.metric)
        /\ Lower(c.metric_hint) = Lower(match.metric)
     THEN 10 ELSE 0)
    +
    (IF Truthy(c.model_hint) /\ Truthy(match.model)
        /\ Contains(Lower(match.model), Lower(c.model_hint))
     THEN 10 ELSE 0)
    +
    (IF Truthy(c.model_hint) /\ Truthy(match.model)
        /\ Contains(Lower(c.model_hint), Lower(match.model))
     THEN 10 ELSE 0)
    +
    (IF Truthy(c.metric_hint) /\ Contains(Lower(match.path), Lower(c.metric_hint))
     THEN 5 ELSE 0)

\* the score _select_best_match gives one match
Score(claim_, match_) ==
    LET c == ClaimTable[claim_]
        match == ObsTable[match_]
    IN
    (IF Truthy(c.metric_hint) /\ Truthy(match.metric)
        /\ Lower(c.metric_hint) = Lower(match.metric)
     THEN 10 ELSE 0)
    +
    (IF Truthy(c.model_hint) /\ Truthy(match.model)
     THEN IF Contains(Lower(match.model), Lower(c.model_hint)) THEN 10
          ELSE IF Contains(Lower(c.model_hint), Lower(match.model)) THEN 10
          ELSE 0
     ELSE 0)
    +
    (IF Truthy(c.metric_hint) /\ Contains(Lower(match.path), Lower(c.metric_hint))
     THEN 5 ELSE 0)

\* Score on every claim and match of the model, computed once
ScoreOf == [c \in ClaimSet, match \in ObsSet |-> Score(c, match)]

\* the insertion of a sort without reverse=True: rising score
RECURSIVE InsertByScore_Ascending(_, _)
InsertByScore_Ascending(sorted, pair) ==
    IF sorted = << >> THEN <<pair>>
    ELSE IF Head(sorted)[1] <= pair[1]
         THEN <<Head(sorted)>> \o InsertByScore_Ascending(Tail(sorted), pair)
         ELSE <<pair>> \o sorted

\* insert one (score, match) pair into a list sorted by falling score, behind
\* the pairs of equal score
RECURSIVE InsertByScore(_, _)
InsertByScore(sorted, pair) ==
    IF sorted = << >> THEN <<pair>>
    ELSE IF Head(sorted)[1] >= pair[1]
         THEN <<Head(sorted)>> \o InsertByScore(Tail(sorted), pair)
         ELSE <<pair>> \o sorted

\* scored.sort(key=lambda x: x[0], reverse=True): stable, equal scores keep
\* their order
RECURSIVE SortByScore(_, _)
SortByScore(scored, i) ==
    IF i = 0 THEN << >>
    ELSE InsertByScore(SortByScore(scored, i - 1), scored[i])

SelectBestMatch(c, matches) ==
    IF Len(matches) = 1 THEN matches[1]
    ELSE LET scored == [i \in 1..Len(matches) |-> <<ScoreOf[c, matches[i]], matches[i]>>]
         IN  SortByScore(scored, Len(scored))[1][2]

NoException == ""
NoResult == << >>
NoClaim == << >>

Returned(r, q, cand) ==
    [result |-> <<r>>, exception |-> NoException, queries |-> q, candidates |-> cand]

Raised(e, q) ==
    [result |-> NoResult, exception |-> e, queries |-> q, candidates |-> << >>]

\* verify_claim from the close tier on, at the given tier and status
TierRun(c, matches, st, q) ==
    LET best_match == SelectBestMatch(c, matches)
        target == ClaimTable[c].value
    IN  IF DivRaises(ObsTable[best_match].value)
        THEN Raised("ZeroDivisionError", q)
        ELSE Returned(VerificationResult(c, st, <<best_match>>,
                          <<DiffPct(ObsTable[best_match].value, target)>>),
                      q, matches)

\* verify_claim with an exact tier that accepts an unambiguous match only
VerifyRun_UniqueExact(vals, idx, tol, c) ==
    LET target == ClaimTable[c].value
        exact_matches == FindExact(idx, target)
        close_matches == FindMatches(vals, target, tol)
        wide_matches == FindMatches(vals, target, WIDE_TOLERANCE)
    IN  IF Len(exact_matches) = 1
        THEN Returned(VerificationResult(c, EXACT_MATCH,
                          <<SelectBestMatch(c, exact_matches)>>, <<Zero>>),
                      <<"exact">>, exact_matches)
        ELSE IF FindMatchesRaises(vals)
        THEN Raised("ZeroDivisionError", <<"exact", "close">>)
        ELSE IF close_matches /= << >>
        THEN TierRun(c, close_matches, CLOSE_MATCH, <<"exact", "close">>)
        ELSE IF wide_matches /= << >>
        THEN TierRun(c, wide_matches, MISMATCH, <<"exact", "close", "wide">>)
        ELSE Returned(VerificationResult(c, UNVERIFIED, << >>, << >>),
                      <<"exact", "close", "wide">>, << >>)

\* verify_claim with the close tier tried before the exact tier
VerifyRun_CloseFirst(vals, idx, tol, c) ==
    LET target == ClaimTable[c].value
        exact_matches == FindExact(idx, target)
        close_matches == FindMatches(vals, target, tol)
        wide_matches == FindMatches(vals, target, WIDE_TOLERANCE)
    IN  IF FindMatchesRaises(vals)
        THEN Raised("ZeroDivisionError", <<"close">>)
        ELSE IF close_matches /= << >>
        THEN TierRun(c, close_matches, CLOSE_MATCH, <<"close">>)
        ELSE IF exact_matches /= << >>
        THEN Returned(VerificationResult(c, EXACT_MATCH,
                          <<SelectBestMatch(c, exact_matches)>>, <<Zero>>),
                      <<"close", "exact">>, exact_matches)
        ELSE IF wide_matches /= << >>
        THEN TierRun(c, wide_matches, MISMATCH, <<"close", "exact", "wide">>)
        ELSE Returned(VerificationResult(c, UNVERIFIED, << >>, << >>),
                      <<"close", "exact", "wide">>, << >>)

\* verify_claim with the wide tier tried before the close tier
VerifyRun_WideBeforeClose(vals, idx, tol, c) ==
    LET target == ClaimTable[c].value
        exact_matches == FindExact(idx, target)
        close_matches == FindMatches(vals, target, tol)
        wide_matches == FindMatches(vals, target, WIDE_TOLERANCE)
    IN  IF exact_matches /= << >>
        THEN Returned(VerificationResult(c, EXACT_MATCH,
                          <<SelectBestMatch(c, exact_matches)>>, <<Zero>>),
                      <<"exact">>, exact_matches)
        ELSE IF FindMatchesRaises(vals)
        THEN Raised("ZeroDivisionError", <<"exact", "wide">>)
        ELSE IF wide_matches /= << >>
        THEN TierRun(c, wide_matches, MISMATCH, <<"exact", "wide">>)
        ELSE IF close_matches /= << >>
        THEN TierRun(c, close_matches, CLOSE_MATCH, <<"exact", "wide", "close">>)
        ELSE Returned(VerificationResult(c, UNVERIFIED, << >>, << >>),
                      <<"exact", "wide", "close">>, << >>)

\* verify_claim: what it returns or raises, the tiers it queried and the
\* candidates it handed to _select_best_match
VerifyRun(vals, idx, tol, c) ==
    LET target == ClaimTable[c].value
        exact_matches == FindExact(idx, target)
        close_matches == FindMatches(vals, target, tol)
        wide_matches == FindMatches(vals, target, WIDE_TOLERANCE)
    IN  IF exact_matches /= << >>
        THEN Returned(VerificationResult(c, EXACT_MATCH,
                          <<SelectBestMatch(c, exact_matches)>>, <<Zero>>),
                      <<"exact">>, exact_matches)
        ELSE IF FindMatchesRaises(vals)
        THEN Raised("ZeroDivisionError", <<"exact", "close">>)
        ELSE IF close_matches /= << >>
        THEN TierRun(c, close_matches, CLOSE_MATCH, <<"exact", "close">>)
        ELSE IF wide_matches /= << >>
        THEN TierRun(c, wide_matches, MISMATCH, <<"exact", "close", "wide">>)
        ELSE Returned(VerificationResult(c, UNVERIFIED, << >>, << >>),
                      <<"exact", "close", "wide">>, << >>)

\* verify_claim with a _select_best_match that sorts the list it was given
\* (matches.sort) and not its own list: in the exact tier that list is the
\* bucket of the index
MatcherAfter_SortsMatches(vals, idx, c, run) ==
    LET scored == [i \in DOMAIN run.candidates |->
                      <<ScoreOf[c, run.candidates[i]], run.candidates[i]>>]
        sorted == SortByScore(scored, Len(scored))
    IN  IF run.queries = <<"exact">> /\ Len(run.candidates) > 1
        THEN [values |-> vals,
              index |-> [idx EXCEPT ![Round6(ClaimTable[c].value)] =
                            [i \in DOMAIN sorted |-> sorted[i][2]]]]
        ELSE [values |-> vals, index |-> idx]

\* the matcher after verify_claim: find_matches fills a new list, find_exact
\* hands out the bucket itself, and _select_best_match sorts its own list
\* `scored`; nothing assigns to values, to index or to a bucket
MatcherAfter(vals, idx, c, run) == [values |-> vals, index |-> idx]

\* verify_all that fills the list from the last claim to the first
VerifyAllRun_Reversed(vals, idx, tol, cs) ==
    LET runs == [i \in 1..Len(cs) |-> VerifyRun(vals, idx, tol, cs[Len(cs) + 1 - i])]
    IN  IF \E i \in DOMAIN runs : runs[i].exception /= NoException
        THEN [results |-> << >>, exception |-> "ZeroDivisionError"]
        ELSE [results |-> [i \in DOMAIN runs |-> runs[i].result[1]],
              exception |-> NoException]

\* verify_all / verify_paper: [self.verify_claim(c) for c in claims]
VerifyAllRun(vals, idx, tol, cs) ==
    LET runs == [i \in 1..Len(cs) |-> VerifyRun(vals, idx, tol, cs[i])]
    IN  IF \E i \in DOMAIN runs : runs[i].exception /= NoException
        THEN [results |-> << >>, exception |-> "ZeroDivisionError"]
        ELSE [results |-> [i \in DOMAIN runs |-> runs[i].result[1]],
              exception |-> NoException]

(* ------------------------------------------------------------------ state *)
RECURSIVE SeqsUpTo(_, _)
SeqsUpTo(S, n) ==
    IF n = 0 THEN {<< >>}
    ELSE LET shorter == SeqsUpTo(S, n - 1)
         IN  shorter \cup {Append(s, x) : s \in {t \in shorter : Len(t) = n - 1}, x \in S}

\* no load_directory call on files and no parse_content call yet
IoIdle ==
    /\ directory = << >>
    /\ count = 0
    /\ warnings = << >>
    /\ load_exception = NoException
    /\ content = << >>
    /\ line_num = 0
    /\ parsed = << >>

Init ==
    /\ values = << >>
    /\ index = BuildIndex(<< >>)
    /\ tolerance_pct = 1
    /\ claim = NoClaim
    /\ result = NoResult
    /\ exception = NoException
    /\ queries = << >>
    /\ candidates = << >>
    /\ pc = "library"
    /\ claims = << >>
    /\ results = << >>
    /\ exit_code = 0
    /\ IoIdle

\* what one load_directory call appends: nothing, or one observation
Batches == {<< >>} \cup {<<rv>> : rv \in ObsSet}

\* load_directory on a directory whose files hold the observations batch, in
\* loading order; claim, result and queries describe the latest verify_claim
\* call and are dropped by any other call
LoadDirectory(batch) ==
    /\ pc = "library"
    /\ Len(values) + Len(batch) <= MaxObs
    /\ values' = values \o batch
    /\ index' = BuildIndex(values')
    /\ claim' = NoClaim
    /\ result' = NoResult
    /\ exception' = NoException
    /\ queries' = << >>
    /\ candidates' = << >>
    /\ UNCHANGED ioVars
    /\ UNCHANGED <<tolerance_pct, pc, claims, results, exit_code>>

\* Validator(matcher, tol).verify_claim(c)
VerifyClaim(c, tol) ==
    /\ pc = "library"
    /\ tolerance_pct' = tol
    /\ claim' = <<c>>
    /\ \E run \in {VerifyRun(values, index, tol, c)} :
           /\ result' = run.result
           /\ exception' = run.exception
           /\ queries' = run.queries
           /\ candidates' = run.candidates
           /\ values' = MatcherAfter(values, index, c, run).values
           /\ index' = MatcherAfter(values, index, c, run).index
    /\ UNCHANGED ioVars
    /\ UNCHANGED <<pc, claims, results, exit_code>>

Next ==
    \/ \E batch \in Batches : LoadDirectory(batch)
    \/ \E c \in ClaimSet, tol \in Tolerances : VerifyClaim(c, tol)

Spec == Init /\ [][Next]_vars

(* ------------------------------------------------------- the check command *)
\* One run of `paperverify check`: pc is the position in check().  The claims
\* parse_latex returns and the observations the results directory holds are
\* inputs of the run; the tolerance option is fixed when the run starts.
InitCheck ==
    /\ values = << >>
    /\ index = BuildIndex(<< >>)
    /\ tolerance_pct \in Tolerances
    /\ claim = NoClaim
    /\ result = NoResult
    /\ exception = NoException
    /\ queries = << >>
    /\ candidates = << >>
    /\ pc = "parse"
    /\ claims = << >>
    /\ results = << >>
    /\ exit_code = 0
    /\ IoIdle

\* claims = parse_latex(paper)
ParseLatex(cs) ==
    /\ pc = "parse"
    /\ claims' = cs
    /\ pc' = "load"
    /\ UNCHANGED ioVars
    /\ UNCHANGED <<values, index, tolerance_pct, claim, result, exception, queries, candidates, results, exit_code>>

\* matcher = load_results(results): a new ResultMatcher, then load_directory
LoadResults(batch) ==
    /\ pc = "load"
    /\ values' = << >> \o batch
    /\ index' = BuildIndex(values')
    /\ pc' = "verify"
    /\ UNCHANGED ioVars
    /\ UNCHANGED <<tolerance_pct, claim, result, exception, queries, candidates, claims, results, exit_code>>

\* verification_results = verify_paper(claims, matcher, tolerance)
VerifyPaper ==
    /\ pc = "verify"
    /\ \E run \in {VerifyAllRun(values, index, tolerance_pct, claims)} :
           IF run.exception /= NoException
           THEN /\ results' = results
                /\ exit_code' = 1
                /\ pc' = "traceback"
           ELSE /\ results' = run.results
                /\ exit_code' = exit_code
                /\ pc' = "exit"
    /\ UNCHANGED ioVars
    /\ UNCHANGED <<values, index, tolerance_pct, claim, result, exception, queries, candidates, claims>>

\* the count of the results that are anything but matched
Mismatches_OrUnverified(rs) ==
    Cardinality({i \in DOMAIN rs : rs[i].status \in {MISMATCH, UNVERIFIED}})

\* sum(1 for r in verification_results if r.status.value == "mismatch")
Mismatches(rs) == Cardinality({i \in DOMAIN rs : rs[i].status = MISMATCH})

\* raise typer.Exit(code=1) if there are mismatches, else return (code 0)
Exit ==
    /\ pc = "exit"
    /\ exit_code' = IF Mismatches(results) > 0 THEN 1 ELSE 0
    /\ pc' = "done"
    /\ UNCHANGED ioVars
    /\ UNCHANGED <<values, index, tolerance_pct, claim, result, exception, queries, candidates, claims, results>>

ClaimLists == SeqsUpTo(ClaimSet, MaxClaims)

Directories == SeqsUpTo(ObsSet, MaxCheckObs)

NextCheck ==
    \/ \E cs \in ClaimLists : ParseLatex(cs)
    \/ \E batch \in Directories : LoadResults(batch)
    \/ VerifyPaper
    \/ Exit

SpecCheck == InitCheck /\ [][NextCheck]_vars

(* ------------------------------------------ load_directory, file by file *)
\* What a loader does with a file, step by step: it appends an observation,
\* it passes over a cell or leaf that is no number (the loader's own
\* isinstance test or except/continue), or it raises (the file cannot be
\* opened or parsed, or float() overflows on a leaf part-way through).
Appends(rv) == [kind |-> "value", rv |-> rv]
Passes == [kind |-> "text", rv |-> 0]
Raises == [kind |-> "error", rv |-> 0]

File(name, ext, steps) == [name |-> name, ext |-> ext, steps |-> steps]

\* the files of the model; an observation's source_file is its file's name
FileTable ==
    << File("chronos_etth1.json", "json", <<Appends(1)>>),
       File("results.json", "json", <<Appends(2), Raises>>),
       File("test.json", "json", <<Raises>>),
       File("results.csv", "csv", <<Passes, Appends(7)>>),
       File("results.xlsx", "xlsx", <<Appends(5)>>) >>

FileSet == DOMAIN FileTable

\* the order of the format loops of load_directory
FormatOrder ==
    <<"json", "csv", "xlsx", "xls", "docx", "yaml", "yml", "sqlite", "db",
      "pdf", "pkl", "pickle">>

\* the files in the order load_directory loads them: format by format, and
\* within a format in the order rglob lists them
RECURSIVE LoadOrderFrom(_, _)
LoadOrderFrom(listing, k) ==
    IF k > Len(FormatOrder) THEN << >>
    ELSE LET HasExt(f) == FileTable[f].ext = FormatOrder[k]
         IN  SelectSeq(listing, HasExt) \o LoadOrderFrom(listing, k + 1)

LoadOrder(listing) == LoadOrderFrom(listing, 1)

\* _load_json_file, _load_csv_file, ...: the values after the loader returned
\* or raised
RECURSIVE LoadFileFrom(_, _, _)
LoadFileFrom(vals, steps, i) ==
    IF i > Len(steps) THEN [values |-> vals, raised |-> FALSE]
    ELSE IF steps[i].kind = "error" THEN [values |-> vals, raised |-> TRUE]
    ELSE IF steps[i].kind = "value"
    THEN LoadFileFrom(Append(vals, steps[i].rv), steps, i + 1)
    ELSE LoadFileFrom(vals, steps, i + 1)

LoadFile(vals, f) == LoadFileFrom(vals, FileTable[f].steps, 1)

\* load_directory without a try around the loaders
Caught_Never(f) == FALSE

\* `except Exception as e` around every loader call, whatever the format
Caught(f) == TRUE

\* the format loops: try: loader(f); count += 1 / except: print the warning
RECURSIVE LoadFilesFrom(_, _, _)
LoadFilesFrom(st, files, i) ==
    IF i > Len(files) THEN st
    ELSE LET f == files[i]
             one == LoadFile(st.values, f)
         IN  IF ~one.raised
             THEN LoadFilesFrom([st EXCEPT !.values = one.values,
                                           !.count = @ + 1], files, i + 1)
             ELSE IF Caught(f)
             THEN LoadFilesFrom([st EXCEPT !.values = one.values,
                                           !.warnings = Append(@, FileTable[f].name)],
                                files, i + 1)
             ELSE [st EXCEPT !.values = one.values, !.exception = "Exception"]

\* load_directory that returns without calling _build_index
LoadDirectoryRun_NoRebuild(vals, idx, listing) ==
    LET st == LoadFilesFrom([values |-> vals, count |-> 0, warnings |-> << >>,
                             exception |-> NoException],
                            LoadOrder(listing), 1)
    IN  [values |-> st.values,
         index |-> idx,
         count |-> st.count,
         warnings |-> st.warnings,
         exception |-> st.exception]

\* load_directory: the loops, then _build_index() and return count, both
\* reached only if no loop raised
LoadDirectoryRun(vals, idx, listing) ==
    LET st == LoadFilesFrom([values |-> vals, count |-> 0, warnings |-> << >>,
                             exception |-> NoException],
                            LoadOrder(listing), 1)
    IN  [values |-> st.values,
         index |-> IF st.exception = NoException THEN BuildIndex(st.values) ELSE idx,
         count |-> st.count,
         warnings |-> st.warnings,
         exception |-> st.exception]

\* load_directory on a directory in which rglob lists the files of listing
LoadDirectoryFiles(listing) ==
    /\ pc = "library"
    /\ \E run \in {LoadDirectoryRun(values, index, listing)} :
           /\ Len(run.values) <= MaxObs
           /\ values' = run.values
           /\ index' = run.index
           /\ count' = run.count
           /\ warnings' = run.warnings
           /\ load_exception' = run.exception
    /\ directory' = listing
    /\ UNCHANGED <<tolerance_pct, claim, result, exception, queries, candidates,
                   pc, claims, results, exit_code, content, line_num, parsed>>

\* the listings of a directory: up to MaxFiles different files, in any order
Listings ==
    {l \in SeqsUpTo(FileSet, MaxFiles) : \A i, j \in DOMAIN l : i /= j => l[i] /= l[j]}

NextLoad == \E listing \in Listings : LoadDirectoryFiles(listing)

SpecLoad == Init /\ [][NextLoad]_vars

(* ------------------------------------------------------------ LatexParser *)
\* A str is a sequence of one-character strings, as above.  A float the
\* parser produces is a short decimal mant * 10^exp, kept with a mant that
\* ends in no zero (0 is 0 * 10^0), so that equal floats are equal records.
\* metric_hint and model_hint, which _identify_metric and _identify_model
\* read off the context, are not part of this model.
Digits == <<"0", "1", "2", "3", "4", "5", "6", "7", "8", "9">>

\* \d
IsDigit(ch) == \E d \in DOMAIN Digits : Digits[d] = ch

DigitValue(ch) == (CHOOSE d \in DOMAIN Digits : Digits[d] = ch) - 1

LowerLetters ==
    {"a", "b", "c", "d", "e", "f", "g", "h", "i", "j", "k", "l", "m",
     "n", "o", "p", "q", "r", "s", "t", "u", "v", "w", "x", "y", "z"}

UpperLetters ==
    {"A", "B", "C", "D", "E", "F", "G", "H", "I", "J", "K", "L", "M",
     "N", "O", "P", "Q", "R", "S", "T", "U", "V", "W", "X", "Y", "Z"}

\* the lookahead class [a-z] read without the flag of the pattern
IsLetter_LowerOnly(ch) == ch \in LowerLetters

\* [a-z] in a pattern matched with re.IGNORECASE: a letter of either case
IsLetter(ch) == ch \in LowerLetters \cup UpperLetters

\* [KMB] with re.IGNORECASE; also `suffix in multipliers` on the lowered letter
IsSuffix(ch) == ch \in {"k", "m", "b", "K", "M", "B"}

\* str.strip: whitespace
IsSpace(ch) == ch \in {" ", "\t", "\r"}

\* [\d,]+ : the position behind the longest run of digits and commas from p
RECURSIVE IntRunEnd(_, _)
IntRunEnd(line, p) ==
    IF p <= Len(line) /\ (IsDigit(line[p]) \/ line[p] = ",")
    THEN IntRunEnd(line, p + 1) ELSE p

\* \d* : the position behind the longest run of digits from p
RECURSIVE DigitRunEnd(_, _)
DigitRunEnd(line, p) ==
    IF p <= Len(line) /\ IsDigit(line[p]) THEN DigitRunEnd(line, p + 1) ELSE p

\* [\d,]+\.?\d* : the position behind the number that starts at p
NumberEnd(line, p) ==
    LET a == IntRunEnd(line, p)
        b == IF a <= Len(line) /\ line[a] = "." THEN a + 1 ELSE a
    IN  DigitRunEnd(line, b)

\* the whole pattern matched at p, where a digit or comma is: the number,
\* then (?:[KMB](?![a-z]))? ; every part is greedy and none can fail
MatchEnd(line, p) ==
    LET c == NumberEnd(line, p)
    IN  IF /\ c <= Len(line)
           /\ IsSuffix(line[c])
           /\ ~(c + 1 <= Len(line) /\ IsLetter(line[c + 1]))
        THEN c + 1 ELSE c

\* re.finditer: the matches from left to right, each search starting where
\* the match before ended; start is a position from 1, end lies behind
RECURSIVE FindIter(_, _)
FindIter(line, p) ==
    IF p > Len(line) THEN << >>
    ELSE IF IsDigit(line[p]) \/ line[p] = ","
         THEN <<[start |-> p, end |-> MatchEnd(line, p)]>>
                  \o FindIter(line, MatchEnd(line, p))
         ELSE FindIter(line, p + 1)

RECURSIVE Decimal(_, _)
Decimal(m, e) ==
    IF m = 0 THEN [mant |-> 0, exp |-> 0]
    ELSE IF m % 10 = 0 THEN Decimal(m \div 10, e + 1)
    ELSE [mant |-> m, exp |-> e]

\* int() of a string of digits
RECURSIVE DigitsValue(_)
DigitsValue(s) ==
    IF s = << >> THEN 0
    ELSE 10 * DigitsValue(SubSeq(s, 1, Len(s) - 1)) + DigitValue(s[Len(s)])

\* float(s) raises ValueError: s is not digits with at most one point, or it
\* has no digit
FloatRaises(s) ==
    \/ \E i \in DOMAIN s : ~IsDigit(s[i]) /\ s[i] /= "."
    \/ Cardinality({i \in DOMAIN s : s[i] = "."}) > 1
    \/ ~\E i \in DOMAIN s : IsDigit(s[i])

\* float(s)
Float(s) ==
    LET point == {i \in DOMAIN s : s[i] = "."}
        fraction == IF point = {} THEN 0 ELSE Len(s) - (CHOOSE i \in point : TRUE)
    IN  Decimal(DigitsValue(SelectSeq(s, IsDigit)), 0 - fraction)

\* raw_text.replace(',', '').strip()
Cleaned(raw) ==
    LET NoComma(ch) == ch /= ","
    IN  SelectSeq(raw, NoComma)

\* multipliers[suffix], as a power of ten
Multiplier(ch) ==
    CASE ch \in {"k", "K"} -> 3
      [] ch \in {"m", "M"} -> 6
      [] ch \in {"b", "B"} -> 9

\* _parse_number raises ValueError
ParseNumberRaises(raw) ==
    LET cleaned == Cleaned(raw)
    IN  IF cleaned /= << >> /\ IsSuffix(cleaned[Len(cleaned)])
        THEN FloatRaises(SubSeq(cleaned, 1, Len(cleaned) - 1))
        ELSE FloatRaises(cleaned)

\* _parse_number
ParseNumber(raw) ==
    LET cleaned == Cleaned(raw)
    IN  IF cleaned /= << >> /\ IsSuffix(cleaned[Len(cleaned)])
        THEN LET numeric_part == Float(SubSeq(cleaned, 1, Len(cleaned) - 1))
             IN  Decimal(numeric_part.mant,
                         numeric_part.exp + Multiplier(cleaned[Len(cleaned)]))
        ELSE Float(cleaned)

\* the length test that lets every token through
TooShort_Never(raw) == FALSE

\* len(raw_text) < 2 and '.' not in raw_text
TooShort(raw) == Len(raw) < 2 /\ ~\E i \in DOMAIN raw : raw[i] = "."

\* value == 0 or value > 1_000_000_000
Unreasonable(v) ==
    \/ v.mant = 0
    \/ v.exp >= 0 /\ (v.exp > 9 \/ v.mant > 10 ^ (9 - v.exp))

\* parser.Claim; start is match.start(), counted from 1, which the Claim
\* keeps only through context
ParsedClaim(v, raw, n, ctx, start) ==
    [value |-> v, raw_text |-> raw, line_number |-> n, context |-> ctx, start |-> start]

\* line[max(0, match.start() - 50) : min(len(line), match.end() + 50)]
Context(line, m) ==
    LET Max(a, b) == IF a > b THEN a ELSE b
        Min(a, b) == IF a < b THEN a ELSE b
    IN  SubSeq(line, Max(1, m.start - 50), Min(Len(line), m.end - 1 + 50))

\* _extract_claims_from_line
ExtractClaims(line, n) ==
    LET Raw(m) == SubSeq(line, m.start, m.end - 1)
        Kept(m) == /\ ~TooShort(Raw(m))
                   /\ ~ParseNumberRaises(Raw(m))
                   /\ ~Unreasonable(ParseNumber(Raw(m)))
        kept == SelectSeq(FindIter(line, 1), Kept)
    IN  [i \in DOMAIN kept |->
            ParsedClaim(ParseNumber(Raw(kept[i])), Raw(kept[i]), n,
                        Context(line, kept[i]), kept[i].start)]

RECURSIVE LStrip(_)
LStrip(s) == IF s /= << >> /\ IsSpace(Head(s)) THEN LStrip(Tail(s)) ELSE s

RECURSIVE RStrip(_)
RStrip(s) ==
    IF s /= << >> /\ IsSpace(s[Len(s)]) THEN RStrip(SubSeq(s, 1, Len(s) - 1)) ELSE s

\* line.startswith('%'), without the strip
IsComment_NoStrip(line) == line /= << >> /\ line[1] = "%"

\* line.strip().startswith('%')
IsComment(line) ==
    LET stripped == RStrip(LStrip(line))
    IN  stripped /= << >> /\ stripped[1] = "%"

\* skip_patterns of _is_non_claim_line
SkipPatterns ==
    << <<"\\", "u", "s", "e", "p", "a", "c", "k", "a", "g", "e">>,
       <<"\\", "d", "o", "c", "u", "m", "e", "n", "t", "c", "l", "a", "s", "s">>,
       <<"\\", "b", "i", "b", "l", "i", "o", "g", "r", "a", "p", "h", "y">>,
       <<"\\", "l", "a", "b", "e", "l", "{">>,
       <<"\\", "r", "e", "f", "{">>,
       <<"\\", "c", "i", "t", "e">> >>

\* _is_non_claim_line: any(re.search(p, line) for p in skip_patterns)
IsNonClaimLine(line) ==
    \E k \in DOMAIN SkipPatterns : Contains(line, SkipPatterns[k])

\* content.split('\n')
RECURSIVE Split(_)
Split(text) ==
    IF \E i \in DOMAIN text : text[i] = "\n"
    THEN LET i == CHOOSE i \in DOMAIN text :
                      text[i] = "\n" /\ \A j \in 1..(i - 1) : text[j] /= "\n"
         IN  <<SubSeq(text, 1, i - 1)>> \o Split(SubSeq(text, i + 1, Len(text)))
    ELSE <<text>>

\* the lines of the model
LineTable ==
    << <<"9", "8", ".", "5", "K">>,
       <<"1", ".", "2", "M", " ", "p">>,
       <<"3", ",", "1", "0", "2", "m", "s">>,
       <<"%", " ", "1", "2">>,
       <<" ", "%", "3", ".", "5">>,
       <<"1", " ", "2", "2">>,
       <<"0", ".", "0", " ", "2", "B">>,
       <<"9", "8", ".", "5", "K", "B">>,
       <<"\\", "c", "i", "t", "e", " ", "1", "2">>,
       <<",", "5", " ", "1", "B">>,
       <<"2", ".", "5", "%">>,
       <<",", "K", " ", "7", "k", "g">>,
       << >>,
       <<"2", "2", " ", "3", ".", "5", "k">> >>

LineSet == DOMAIN LineTable

\* the text whose lines are the lines ls of the table
RECURSIVE Join(_)
Join(ls) ==
    IF Len(ls) = 1 THEN LineTable[ls[1]]
    ELSE LineTable[ls[1]] \o <<"\n">> \o Join(Tail(ls))

\* the texts parse_content is called with: one to MaxLines lines
Documents == {Join(ls) : ls \in SeqsUpTo(LineSet, MaxLines) \ {<< >>}}

\* parser = LatexParser(); parser.parse_content(content) is called
InitParse ==
    /\ values = << >>
    /\ index = BuildIndex(<< >>)
    /\ tolerance_pct = 1
    /\ claim = NoClaim
    /\ result = NoResult
    /\ exception = NoException
    /\ queries = << >>
    /\ candidates = << >>
    /\ pc = "scan"
    /\ claims = << >>
    /\ results = << >>
    /\ exit_code = 0
    /\ directory = << >>
    /\ count = 0
    /\ warnings = << >>
    /\ load_exception = NoException
    /\ content \in Documents
    /\ line_num = 0
    /\ parsed = << >>

\* one turn of the loop of parse_content
ParseLine ==
    /\ pc = "scan"
    /\ line_num < Len(Split(content))
    /\ line_num' = line_num + 1
    /\ \E line \in {Split(content)[line_num + 1]} :
           parsed' = IF IsComment(line) \/ IsNonClaimLine(line)
                     THEN parsed
                     ELSE parsed \o ExtractClaims(line, line_num + 1)
    /\ UNCHANGED <<values, index, tolerance_pct, claim, result, exception, queries,
                   candidates, pc, claims, results, exit_code, directory, count,
                   warnings, load_exception, content>>

\* return claims
ParseReturn ==
    /\ pc = "scan"
    /\ line_num = Len(Split(content))
    /\ pc' = "returned"
    /\ UNCHANGED <<values, index, tolerance_pct, claim, result, exception, queries,
                   candidates, claims, results, exit_code>>
    /\ UNCHANGED ioVars

NextParse == ParseLine \/ ParseReturn

SpecParse == InitParse /\ [][NextParse]_vars

(* ------------------------------------------------------------- properties *)
Range(s) == {s[i] : i \in DOMAIN s}

\* the latest verify_claim call returned
Verified == claim /= NoClaim /\ result /= NoResult

\* the value of the claim of the latest verify_claim call
ClaimValue == ClaimTable[claim[1]].value

\* C1: whenever find_exact(V) is non-empty when verify_claim runs, the result
\* is EXACT_MATCH with difference_pct = 0 and a matched_value taken from
\* find_exact(V), whatever the tolerance and the other observations.
C1_ExactMatchWins ==
    (claim /= NoClaim /\ FindExact(index, ClaimValue) /= << >>) =>
        /\ result /= NoResult
        /\ result[1].status = EXACT_MATCH
        /\ result[1].difference_pct = <<Ratio(0, 1)>>
        /\ Len(result[1].matched_value) = 1
        /\ result[1].matched_value[1] \in Range(FindExact(index, ClaimValue))

\* an exact match found although a wider tolerance and other observations
\* that are only close are in the index
C1_Witness ==
    /\ Verified
    /\ result[1].status = EXACT_MATCH
    /\ tolerance_pct = 12
    /\ Len(FindExact(index, ClaimValue)) = 2
    /\ Len(FindMatches(values, ClaimValue, tolerance_pct)) = 3

MatchedValue == ObsTable[result[1].matched_value[1]].value

\* C3 as stated: in every result with a difference_pct, EXACT_MATCH included,
\* difference_pct = |matched - claim| / |matched| * 100.
C3_Original ==
    (Verified /\ result[1].difference_pct /= << >>) =>
        /\ MatchedValue /= 0
        /\ result[1].difference_pct =
               <<Ratio(Abs(MatchedValue - ClaimValue) * 100, Abs(MatchedValue))>>

\* C3 as amended: difference_pct = |matched - claim| / |matched| * 100 in every
\* CLOSE_MATCH and MISMATCH result; in an EXACT_MATCH result it is 0, whatever
\* the matched value, which only shares the claim's key rounded to 6 digits;
\* an UNVERIFIED result has no difference_pct.
C3_DifferencePct ==
    Verified =>
        LET st == result[1].status
            d == result[1].difference_pct
        IN  /\ st \in {CLOSE_MATCH, MISMATCH} =>
                /\ MatchedValue /= 0
                /\ d = <<Ratio(Abs(MatchedValue - ClaimValue) * 100, Abs(MatchedValue))>>
            /\ st = EXACT_MATCH =>
                /\ d = <<Ratio(0, 1)>>
                /\ Round6(MatchedValue) = Round6(ClaimValue)
            /\ st = UNVERIFIED => d = << >>

\* a close match 2.14 against 2.12: 0.02 / 2.12 * 100 = 50/53 = 0.943...
C3_Witness ==
    /\ Verified
    /\ result[1].status = CLOSE_MATCH
    /\ ClaimValue = 21400000
    /\ MatchedValue = 21200000
    /\ result[1].difference_pct = <<(<<50, 53>>)>>

\* the scenario of C4: the claim of value 2.10 with metric hint mae, tolerance
\* 1.0, an index whose only observation has value 2.50
C4_Scenario ==
    /\ claim /= NoClaim
    /\ ClaimTable[claim[1]] = Claim(21000000, S_mae, None)
    /\ tolerance_pct = 1
    /\ Len(values) = 1
    /\ ObsTable[values[1]].value = 25000000

\* C4 as stated: the scenario yields MISMATCH with difference_pct = 16.0.
C4_Original ==
    C4_Scenario =>
        /\ Verified
        /\ result[1].status = MISMATCH
        /\ result[1].difference_pct = <<Ratio(16, 1)>>

\* C4 as amended: the scenario yields UNVERIFIED with no matched value and no
\* difference_pct, because |2.50 - 2.10| / 2.50 * 100 = 16.0 is more than the
\* 10.0 of the wide tier.
C4_ScenarioUnverified ==
    C4_Scenario =>
        /\ Verified
        /\ result[1].status = UNVERIFIED
        /\ result[1].matched_value = << >>
        /\ result[1].difference_pct = << >>
        /\ queries = <<"exact", "close", "wide">>
        /\ Ratio(Abs(25000000 - ClaimValue) * 100, 25000000) = Ratio(16, 1)

C4_Witness == C4_Scenario /\ Verified

\* the score as C6 states it: +10 metric equality, +10 model substring in
\* either direction counted once, +5 metric_hint substring of path
StatedScore(c, rv) ==
    LET cl == ClaimTable[c]
        o == ObsTable[rv]
        metric_eq == cl.metric_hint /= None /\ o.metric /= None
                     /\ Lower(cl.metric_hint) = Lower(o.metric)
        model_sub == cl.model_hint /= None /\ o.model /= None
                     /\ (\/ Contains(Lower(o.model), Lower(cl.model_hint))
                         \/ Contains(Lower(cl.model_hint), Lower(o.model)))
        path_sub == cl.metric_hint /= None
                    /\ Contains(Lower(o.path), Lower(cl.metric_hint))
    IN  (IF metric_eq THEN 10 ELSE 0) + (IF model_sub THEN 10 ELSE 0)
        + (IF path_sub THEN 5 ELSE 0)

\* the metric of the observation equals the claim's metric_hint, ignoring case
MetricEqual(c, rv) ==
    /\ ClaimTable[c].metric_hint /= None
    /\ ObsTable[rv].metric /= None
    /\ Lower(ClaimTable[c].metric_hint) = Lower(ObsTable[rv].metric)

\* the case of C5: verify_claim handed two candidates to _select_best_match
\* and exactly one of them has the metric of the claim's metric_hint
C5_Case ==
    /\ Verified
    /\ Len(candidates) = 2
    /\ MetricEqual(claim[1], candidates[1]) /= MetricEqual(claim[1], candidates[2])

\* the candidate of C5_Case with the metric of the hint, and the other one
C5_Hit == IF MetricEqual(claim[1], candidates[1]) THEN candidates[1] ELSE candidates[2]
C5_Other == IF MetricEqual(claim[1], candidates[1]) THEN candidates[2] ELSE candidates[1]

\* C5 as stated: the candidate with the metric of the hint is returned for
\* both orderings of the two candidates.
C5_Original ==
    C5_Case =>
        /\ SelectBestMatch(claim[1], <<C5_Hit, C5_Other>>) = C5_Hit
        /\ SelectBestMatch(claim[1], <<C5_Other, C5_Hit>>) = C5_Hit

\* C5 as amended: the candidate with the metric of the hint is returned for
\* both orderings when its score is the greater one; when the model and path
\* bonuses of the other candidate make the scores equal, the first candidate of
\* the input is returned, and when they make the other's score greater the
\* other candidate is returned for both orderings.
C5_MetricHitByScore ==
    C5_Case =>
        LET hit == StatedScore(claim[1], C5_Hit)
            other == StatedScore(claim[1], C5_Other)
            fwd == SelectBestMatch(claim[1], <<C5_Hit, C5_Other>>)
            bwd == SelectBestMatch(claim[1], <<C5_Other, C5_Hit>>)
        IN  /\ hit > other => (fwd = C5_Hit /\ bwd = C5_Hit)
            /\ hit = other => (fwd = C5_Hit /\ bwd = C5_Other)
            /\ hit < other => (fwd = C5_Other /\ bwd = C5_Other)
            /\ result[1].matched_value = <<SelectBestMatch(claim[1], candidates)>>

\* the other candidate was returned
C5_Witness ==
    /\ C5_Case
    /\ result[1].matched_value = <<C5_Other>>
    /\ StatedScore(claim[1], C5_Hit) < StatedScore(claim[1], C5_Other)

\* the first position of matches whose stated score is the greatest
FirstBest(c, matches) ==
    CHOOSE i \in DOMAIN matches :
        /\ \A j \in DOMAIN matches : StatedScore(c, matches[j]) <= StatedScore(c, matches[i])
        /\ \A j \in 1..(i - 1) : StatedScore(c, matches[j]) < StatedScore(c, matches[i])

\* C6: _select_best_match returns a candidate of maximal score, the first of
\* them in input order; a single candidate is returned as it is.
C6_FirstOfBestScore ==
    (Verified /\ candidates /= << >>) =>
        /\ result[1].matched_value = <<candidates[FirstBest(claim[1], candidates)]>>
        /\ Len(candidates) = 1 => result[1].matched_value = <<candidates[1]>>
        /\ \A i \in DOMAIN candidates :
               SelectBestMatch(claim[1], <<candidates[i]>>) = candidates[i]

\* three candidates, the best score shared by the second and the third: the
\* second is returned
C6_Witness ==
    /\ Verified
    /\ Len(candidates) = 3
    /\ StatedScore(claim[1], candidates[1]) < StatedScore(claim[1], candidates[2])
    /\ StatedScore(claim[1], candidates[2]) = StatedScore(claim[1], candidates[3])
    /\ candidates[2] /= candidates[3]
    /\ result[1].matched_value = <<candidates[2]>>

\* small is large without some of its entries: the entries of large that
\* occur in small, in the order of large
SubSequence(small, large) ==
    LET InSmall(x) == x \in Range(small)
    IN  small = SelectSeq(large, InSmall)

\* the tolerances C7 compares: the configured ones, 0 and the 10.0 of the
\* wide tier
C7_Tolerances == Tolerances \cup {0, 10}

\* C7: for every index, value V and tolerances T1 < T2, find_matches(V, T1) is
\* contained in find_matches(V, T2), and both list observations of non-zero
\* value in ingestion order.
C7_ToleranceMonotone ==
    \A v \in {ClaimTable[c].value : c \in ClaimSet} :
        \E found \in {[t \in C7_Tolerances |-> FindMatches(values, v, t)]} :
            /\ \A t \in C7_Tolerances :
                   /\ SubSequence(found[t], values)
                   /\ \A rv \in Range(found[t]) : ObsTable[rv].value /= 0
            /\ \A t1, t2 \in C7_Tolerances :
                   t1 < t2 => SubSequence(found[t1], found[t2])

\* verify_claim queried a close tier that holds some but not all of what the
\* wide tier holds, with a zero value in the collection
C7_Witness ==
    /\ Verified
    /\ queries = <<"exact", "close">>
    /\ tolerance_pct < 10
    /\ \E rv \in Range(values) : ObsTable[rv].value = 0
    /\ Len(FindMatches(values, ClaimValue, tolerance_pct)) = 1
    /\ Len(FindMatches(values, ClaimValue, 10)) = 2

\* the status verify_claim returns for claim c under tolerance tol
StatusOf(vals, idx, tol, c) ==
    LET run == VerifyRun(vals, idx, tol, c)
    IN  IF run.result = NoResult THEN run.exception ELSE run.result[1].status

\* C8: a load that appends a second copy of an observation already in the
\* collection and rebuilds the index changes the status of no claim; the
\* candidates handed to _select_best_match can only become more.
C8_ReingestKeepsStatus ==
    [][(\E rv \in Range(values) : values' = Append(values, rv)) =>
           \A c \in ClaimSet : \A tol \in Tolerances :
               /\ StatusOf(values', index', tol, c) = StatusOf(values, index, tol, c)
               /\ Len(VerifyRun(values', index', tol, c).candidates)
                      >= Len(VerifyRun(values, index, tol, c).candidates)]_vars

\* a claim verified as an exact match against a collection that ends with the
\* second copy of its only other observation
C8_Witness ==
    /\ Verified
    /\ Len(values) = 2
    /\ values[1] = values[2]
    /\ result[1].status = EXACT_MATCH
    /\ Len(candidates) = 2

\* C9: verify_claim always returns a result and never raises, whatever the
\* index and the claim; with no evidence in any tier the result is UNVERIFIED
\* with neither matched_value nor difference_pct.
C9_VerifyTotal ==
    claim /= NoClaim =>
        /\ exception = NoException
        /\ result /= NoResult
        /\ result[1].status \in {EXACT_MATCH, CLOSE_MATCH, MISMATCH, UNVERIFIED}
        /\ (/\ FindExact(index, ClaimValue) = << >>
            /\ FindMatches(values, ClaimValue, tolerance_pct) = << >>
            /\ FindMatches(values, ClaimValue, 10) = << >>)
           => /\ result[1].status = UNVERIFIED
              /\ result[1].matched_value = << >>
              /\ result[1].difference_pct = << >>

\* no tier has evidence although the collection holds a zero value and others
C9_Witness ==
    /\ Verified
    /\ result[1].status = UNVERIFIED
    /\ Len(values) >= 2
    /\ \E rv \in Range(values) : ObsTable[rv].value = 0
    /\ queries = <<"exact", "close", "wide">>

\* C10: check exits with code 1 exactly when some result is a MISMATCH, and
\* with code 0 otherwise.
C10_ExitCode ==
    /\ pc /= "traceback"
    /\ pc = "done" =>
        /\ Len(results) = Len(claims)
        /\ exit_code = IF \E i \in DOMAIN results : results[i].status = MISMATCH
                       THEN 1 ELSE 0

\* a run that ended with code 0 although no claim was verified
C10_Witness ==
    /\ pc = "done"
    /\ exit_code = 0
    /\ Len(results) = 2
    /\ \A i \in DOMAIN results : results[i].status = UNVERIFIED
    /\ values /= << >>

\* a file whose loader raises
FailingFile(f) ==
    \E i \in DOMAIN FileTable[f].steps : FileTable[f].steps[i].kind = "error"

\* the observations a file holds, in file order
ObservationsOf(f) == {rv \in ObsSet : ObsTable[rv].source_file = FileTable[f].name}

\* C11: in load_directory, a file whose loader raises is caught and warned
\* about and does not count; every file that loads is loaded and counted,
\* whatever its format and wherever failing files come in the order; the
\* index is built from all values at the end; load_directory does not raise.
C11_IngestionIsolation ==
    [][LET added == SubSeq(values', Len(values) + 1, Len(values'))
           failing == {i \in DOMAIN directory' : FailingFile(directory'[i])}
           loading == (DOMAIN directory') \ failing
       IN  /\ load_exception' = NoException
           /\ count' = Cardinality(loading)
           /\ Len(warnings') = Cardinality(failing)
           /\ Range(warnings') = {FileTable[directory'[i]].name : i \in failing}
           /\ \A i \in loading : ObservationsOf(directory'[i]) \subseteq Range(added)
           /\ \A i \in DOMAIN values' :
                  /\ Round6(ObsTable[values'[i]].value) \in DOMAIN index'
                  /\ values'[i] \in Range(index'[Round6(ObsTable[values'[i]].value)])
      ]_vars

\* a spreadsheet loaded, counted and indexed by the call that warned about a
\* JSON file, which the JSON loop had tried before
C11_Witness ==
    /\ directory = <<5, 2>>
    /\ warnings = <<"results.json">>
    /\ count = 1
    /\ 5 \in Range(values)
    /\ 5 \in Range(FindExact(index, ObsTable[5].value))

\* round(rv.value, 6) of an observation
KeyOf(rv) == Round6(ObsTable[rv].value)

\* the observations of vals with the rounded key k, in the order of vals
Group(vals, k) ==
    LET HasKey(rv) == KeyOf(rv) = k
    IN  SelectSeq(vals, HasKey)

\* C12: after any load_directory the index is the grouping of values by the
\* value rounded to 6 digits: its keys are the rounded values, each bucket
\* holds the observations of its key in insertion order, building it again
\* gives the same index, and find_exact(V) is the bucket of round(V, 6) or
\* empty.
C12_IndexIsGrouping ==
    LET keys == {KeyOf(values[i]) : i \in DOMAIN values}
    IN  /\ DOMAIN index = keys
        /\ \A k \in keys : index[k] = Group(values, k)
        /\ BuildIndex(values) = index
        /\ \A c \in ClaimSet :
               FindExact(index, ClaimTable[c].value) =
                   IF Round6(ClaimTable[c].value) \in keys
                   THEN Group(values, Round6(ClaimTable[c].value))
                   ELSE << >>

\* three load_directory calls: a bucket of two observations with different
\* values, in insertion order, around an observation of another bucket
C12_Witness ==
    /\ values = <<2, 5, 1>>
    /\ DOMAIN index = {KeyOf(2), KeyOf(5)}
    /\ index[KeyOf(1)] = <<2, 1>>
    /\ ObsTable[2].value /= ObsTable[1].value

\* how often an observation occurs in values, and in the buckets of index
TimesInValues(rv) == Cardinality({i \in DOMAIN values : values[i] = rv})
TimesInIndex(rv) ==
    Cardinality(UNION {{<<k, i>> : i \in {j \in DOMAIN index[k] : index[k][j] = rv}} :
                       k \in DOMAIN index})

\* C13: between the calls of load_directory, when a query can run, values
\* and the index hold the same observations, each as often in the one as in
\* the other, and whatever find_matches returns is in the bucket find_exact
\* returns for that observation's value.
C13_SameObservations ==
    /\ \A rv \in ObsSet : TimesInValues(rv) = TimesInIndex(rv)
    /\ \A c \in ClaimSet, tol \in Tolerances :
           \A rv \in Range(FindMatches(values, ClaimTable[c].value, tol)) :
               rv \in Range(FindExact(index, ObsTable[rv].value))

\* after a call that warned about results.json: the observation that file
\* gave before it failed is seen by both lookups, and a zero observation is
\* in the index as well
C13_Witness ==
    /\ warnings = <<"results.json">>
    /\ 2 \in Range(FindMatches(values, ClaimTable[1].value, 1))
    /\ 2 \in Range(FindExact(index, ClaimTable[1].value))
    /\ 7 \in Range(FindExact(index, 0))

\* C14: a verify_claim call leaves values and every bucket of the index as
\* they were, so the claim verified before it still verifies to the result
\* it had; verify_all is one such call after the other.
C14_VerifyReadOnly ==
    [][claim' /= NoClaim =>
           /\ values' = values
           /\ index' = index
           /\ (claim /= NoClaim /\ result /= NoResult) =>
                  VerifyRun(values', index', tolerance_pct, claim[1]).result = result
      ]_vars

\* an exact match chosen from a bucket whose first observation is not the
\* best one: the bucket is still in insertion order after the call
C14_Witness ==
    /\ Verified
    /\ queries = <<"exact">>
    /\ Len(candidates) >= 2
    /\ result[1].matched_value /= <<candidates[1]>>
    /\ FindExact(index, ClaimValue) = candidates
    /\ FindExact(index, ClaimValue) = Group(values, Round6(ClaimValue))

\* C15: verify_all returns one result per claim, in the order of the claims:
\* the lists have the same length, the i-th result is about the i-th claim
\* and it is what verify_claim returns for that claim on its own, whatever
\* the other claims of the list and their order.
C15_OneResultPerClaim ==
    pc \in {"exit", "done"} =>
        /\ Len(results) = Len(claims)
        /\ \A i \in DOMAIN claims :
               /\ results[i].claim = claims[i]
               /\ <<results[i]>> =
                      VerifyRun(values, index, tolerance_pct, claims[i]).result

\* two different claims verified in one call, with different statuses
C15_Witness ==
    /\ pc = "done"
    /\ Len(claims) = 2
    /\ Len(results) = 2
    /\ claims[1] /= claims[2]
    /\ results[1].status = EXACT_MATCH
    /\ results[2].status = UNVERIFIED

\* the lines parse_content has handled so far
HandledLines == 1..line_num

\* line i of the text
LineAt(i) == Split(content)[i]

\* the text of a match
RawOf(line, m) == SubSeq(line, m.start, m.end - 1)

\* a claim was emitted for the match m of line i
Emitted(i, m) ==
    \E k \in DOMAIN parsed : parsed[k].line_number = i /\ parsed[k].start = m.start

HasPoint(raw) == \E i \in DOMAIN raw : raw[i] = "."

\* v <= 1e9, for a decimal with a mant of less than ten digits
AtMost1e9(v) == v.exp < 0 \/ (v.exp <= 9 /\ v.mant <= 10 ^ (9 - v.exp))

\* C16: every claim parse_content emits has a raw_text of two characters or
\* more or with a decimal point, and a value that is not 0 and at most 1e9;
\* a token of one character without a point, and a token whose value is 0
\* or above 1e9, gives no claim.
C16_NoiseRejection ==
    /\ \A k \in DOMAIN parsed :
           /\ Len(parsed[k].raw_text) >= 2 \/ HasPoint(parsed[k].raw_text)
           /\ parsed[k].value.mant /= 0
           /\ AtMost1e9(parsed[k].value)
    /\ \A i \in HandledLines :
           \A j \in DOMAIN FindIter(LineAt(i), 1) :
               LET m == FindIter(LineAt(i), 1)[j]
                   raw == RawOf(LineAt(i), m)
               IN  (\/ Len(raw) = 1 /\ ~HasPoint(raw)
                    \/ /\ ~ParseNumberRaises(raw)
                       /\ \/ ParseNumber(raw).mant = 0
                          \/ ~AtMost1e9(ParseNumber(raw)))
                   => ~Emitted(i, m)

\* "1 22" and "0.0 2B": four tokens, and the only claim is 22
C16_Witness ==
    /\ pc = "returned"
    /\ content = Join(<<6, 7>>)
    /\ Len(parsed) = 1
    /\ parsed[1].raw_text = <<"2", "2">>
    /\ parsed[1].value = Decimal(22, 0)

\* What the number that starts at `start` of a line is worth when a letter k,
\* m or b right behind it counts as a suffix unless the character after the
\* letter is one that Blocks: the text that makes the claim, and its value.
StatedToken(line, start, Blocks(_)) ==
    LET e == NumberEnd(line, start)
        number == Float(Cleaned(SubSeq(line, start, e - 1)))
    IN  IF /\ e <= Len(line)
           /\ IsSuffix(line[e])
           /\ ~(e + 1 <= Len(line) /\ Blocks(line[e + 1]))
        THEN [raw_text |-> SubSeq(line, start, e),
              value |-> Decimal(number.mant, number.exp + Multiplier(line[e]))]
        ELSE [raw_text |-> SubSeq(line, start, e - 1), value |-> number]

\* a lowercase letter
LowerCase(ch) == ch \in LowerLetters

\* a letter of either case
AnyCase(ch) == ch \in LowerLetters \cup UpperLetters

\* C17 as stated: a letter k, m or b behind the number is the suffix, and
\* scales the value, exactly when no lowercase letter follows it.
C17_Original ==
    \A k \in DOMAIN parsed :
        LET stated == StatedToken(LineAt(parsed[k].line_number), parsed[k].start, LowerCase)
        IN  parsed[k].value = stated.value

\* C17: a letter k, m or b (either case) right behind the number is taken as
\* the magnitude suffix, and the value is the comma-stripped number times
\* 1e3, 1e6 or 1e9, exactly when no letter of either case follows it;
\* otherwise raw_text ends before the letter and the value is the
\* comma-stripped number itself.
C17_MagnitudeSuffix ==
    \A k \in DOMAIN parsed :
        LET stated == StatedToken(LineAt(parsed[k].line_number), parsed[k].start, AnyCase)
        IN  /\ parsed[k].value = stated.value
            /\ parsed[k].raw_text = stated.raw_text

\* "98.5KB" read as 98.5 and "98.5K" read as 98500
C17_Witness ==
    /\ pc = "returned"
    /\ content = Join(<<8, 1>>)
    /\ Len(parsed) = 2
    /\ parsed[1].value = Decimal(985, 0 - 1)
    /\ parsed[1].raw_text = <<"9", "8", ".", "5">>
    /\ parsed[2].value = Decimal(985, 2)
    /\ parsed[2].raw_text = <<"9", "8", ".", "5", "K">>

\* the first character of the line that is not blank is the comment marker
StartsComment(line) ==
    \E i \in DOMAIN line : line[i] = "%" /\ \A j \in 1..(i - 1) : IsSpace(line[j])

\* the claims emitted for line i, in the order of the list
ClaimsOfLine(i) ==
    LET OfLine(c) == c.line_number = i
    IN  SelectSeq(parsed, OfLine)

\* C18: parse_content handles the text line by line in one pass: a line whose
\* first non-blank character is '%' gives no claim, the claims of the other
\* lines come in the order of the lines and from left to right within a
\* line, and line_number is the position of the line in the text counted
\* from 1, skipped lines included.
C18_LineOrientedPass ==
    /\ \A k \in DOMAIN parsed :
           /\ parsed[k].line_number \in HandledLines
           /\ ~StartsComment(LineAt(parsed[k].line_number))
           /\ parsed[k].raw_text =
                  SubSeq(LineAt(parsed[k].line_number), parsed[k].start,
                         parsed[k].start + Len(parsed[k].raw_text) - 1)
    /\ \A j, k \in DOMAIN parsed :
           j < k => \/ parsed[j].line_number < parsed[k].line_number
                    \/ /\ parsed[j].line_number = parsed[k].line_number
                       /\ parsed[j].start < parsed[k].start
    /\ \A i \in HandledLines :
           ClaimsOfLine(i) =
               IF StartsComment(LineAt(i)) \/ IsNonClaimLine(LineAt(i))
               THEN << >>
               ELSE ExtractClaims(LineAt(i), i)

\* an indented comment line with a number in it, then a line with two
\* claims: both claims carry line number 2
C18_Witness ==
    /\ pc = "returned"
    /\ content = Join(<<5, 14>>)
    /\ Len(parsed) = 2
    /\ parsed[1].line_number = 2 /\ parsed[1].start = 1
    /\ parsed[2].line_number = 2 /\ parsed[2].start = 4

\* C19: after load_directory, values and the index hold no observation whose
\* source_file is a file of the directory whose loader raised.
C19_FailedFileAbsent ==
    \A i \in DOMAIN directory :
        FailingFile(directory[i]) =>
            /\ \A j \in DOMAIN values :
                   ObsTable[values[j]].source_file /= FileTable[directory[i]].name
            /\ \A k \in DOMAIN index : \A j \in DOMAIN index[k] :
                   ObsTable[index[k][j]].source_file /= FileTable[directory[i]].name

\* the difference_pct of the latest result, as <<numerator, denominator>>
Difference == result[1].difference_pct[1]

Rank(st) ==
    IF st = EXACT_MATCH THEN 3
    ELSE IF st = CLOSE_MATCH THEN 2
    ELSE IF st = MISMATCH THEN 1
    ELSE 0

\* the tolerances the latest call is compared under
C21_Tolerances == C7_Tolerances \cup {15}

\* C21: for the index and the claim of a verify_claim call, the status under
\* a larger tolerance ranks at least as high as the status the call
\* returned, the status under a smaller tolerance at most as high, and an
\* EXACT_MATCH is an EXACT_MATCH under every tolerance.
C21_StatusMonotone ==
    Verified =>
        \A tol \in C21_Tolerances :
            \E other \in {VerifyRun(values, index, tol, claim[1])} :
                /\ other.result /= NoResult
                /\ tol > tolerance_pct =>
                       Rank(other.result[1].status) >= Rank(result[1].status)
                /\ tol < tolerance_pct =>
                       Rank(other.result[1].status) <= Rank(result[1].status)
                /\ result[1].status = EXACT_MATCH =>
                       other.result[1].status = EXACT_MATCH

\* a claim that is unverified under 5 percent, with its nearest observation
\* more than 10 percent away, and a close match under 15 percent
C21_Witness ==
    /\ Verified
    /\ tolerance_pct = 5
    /\ result[1].status = UNVERIFIED
    /\ values /= << >>
    /\ StatusOf(values, index, 15, claim[1]) = CLOSE_MATCH
====
